---- MODULE Spec2Model ----
(***************************************************************************)
(* Definability and independence of Boolean connectives.                   *)
(*                                                                         *)
(* A connective is its arity and its truth table (src/connectives.py).     *)
(* The pattern-enumeration definability checker, the independence          *)
(* predicate and the greedy independent subset are modelled from           *)
(* src/independence.py; the SAT composition-tree checker from              *)
(* src/independence_z3.py.                                                 *)
(***************************************************************************)
EXTENDS Integers, Sequences, FiniteSets

VARIABLES
    connectives,  \* the list handed to the enumeration-backend operation
    pc,           \* position of the running operation
    target,       \* target connective of the definability query
    max_depth,    \* max_depth argument of the running operation
    mode,         \* DefinabilityMode argument of the running operation
    i,            \* loop index of is_independent / get_independent_subset (1-based)
    independent,  \* the list get_independent_subset has kept so far
    result,       \* boolean returned by is_definable / is_independent
    redundant,    \* the set find_redundant_connectives builds (0-based indices)
    first_run,    \* <<the list an earlier run of get_independent_subset returned>>, or <<>>
    z3_depth,     \* is_definable_z3_sat: the depth of the current iteration
    model,        \* is_definable_z3_sat: the solver's model, <<>> when there is none
    witness,      \* is_definable_z3_sat: the extracted witness, <<>> when there is none
    last_log,     \* is_definable_z3_sat: the last diagnostic logged (level, depth)
    ret,          \* the value the last operation returned (is_definable_z3_sat: the pair)
    args,         \* the arguments of the last call of connectives.py / z3_proof.py
    _READABLE_NAMES,      \* connectives.py: the module-level name table, <<>> for None
    conn,                 \* connectives.py: <<the Connective last constructed>>, or <<>>
    solver,               \* z3_proof.py: the blocking clauses asserted in the solver s
    blocked_set_indices,  \* z3_proof.py: the list of the blocked index lists
    candidates_checked,   \* z3_proof.py: the counter of the candidates
    nice_sets_found,      \* z3_proof.py: the nice sets found, as index lists
    checkpoint_file,      \* z3_proof.py: <<the data in the checkpoint file>>, or <<>>
    checkpoint            \* z3_proof.py: <<the data load_checkpoint returned>>, or <<>>

z3vars == <<z3_depth, model, witness, last_log, ret>>

modulevars == <<args, _READABLE_NAMES, conn, solver, blocked_set_indices,
                candidates_checked, nice_sets_found, checkpoint_file, checkpoint>>

vars == <<connectives, pc, target, max_depth, mode, i, independent, result,
          redundant, first_run, z3_depth, model, witness, last_log, ret,
          args, _READABLE_NAMES, conn, solver, blocked_set_indices,
          candidates_checked, nice_sets_found, checkpoint_file, checkpoint>>

-----------------------------------------------------------------------------
(* Bounds of the model *)

\* max_depth ranges over 1..MaxDepth
MaxDepth == 3
\* the lists of connectives have at most MaxLen elements
MaxLen == 3
\* is_definable_z3_sat: max_depth ranges over 1..MaxDepthZ3
MaxDepthZ3 == 2
\* is_definable_z3_sat: the basis has at most MaxBasisZ3 elements
MaxBasisZ3 == 2
\* Connective.evaluate is handed at most MaxInputs inputs
MaxInputs == 3
\* z3_proof: target_size ranges over 1..MaxTargetSize
MaxTargetSize == 2

\* is_definable_z3_sat(target, basis, max_depth: int = 3, ...)
DEFAULT_MAX_DEPTH == 3

\* z3_proof_approach_1_symmetry_breaking(..., max_candidates=10000, ...)
DEFAULT_MAX_CANDIDATES == 10000

-----------------------------------------------------------------------------
(* Connectives: src/connectives.py, src/constants.py *)

Connective(arity, truth_table) == [arity |-> arity, tt |-> truth_table]

CONST_FALSE     == Connective(0, 0)
CONST_TRUE      == Connective(0, 1)
IDENTITY        == Connective(1, 2)
NOT             == Connective(1, 1)
AND             == Connective(2, 8)
OR              == Connective(2, 14)
XOR             == Connective(2, 6)
NAND            == Connective(2, 7)
PROJECT_X       == Connective(2, 12)
PROJECT_Y       == Connective(2, 10)
CONST_FALSE_BIN == Connective(2, 0)
CONST_TRUE_BIN  == Connective(2, 15)
CONST_0_UNARY   == Connective(1, 0)
CONST_1_UNARY   == Connective(1, 3)
IMPLIES         == Connective(2, 11)
CONVERSE_IMP    == Connective(2, 13)
\* the ternary constants of tests/test_definability_modes.py
FALSE_3         == Connective(3, 0)
TRUE_3          == Connective(3, 255)

\* the absent optional function of a composition shape (Python None)
None == [arity |-> -1, tt |-> 0]

SYNTACTIC        == "syntactic"
TRUTH_FUNCTIONAL == "truth-functional"
DefinabilityMode == {SYNTACTIC, TRUTH_FUNCTIONAL}

RECURSIVE RowIndex(_, _, _)
\* index = index * 2 + val over the inputs, left to right
RowIndex(inputs, k, index) ==
    IF k > Len(inputs) THEN index
    ELSE RowIndex(inputs, k + 1, index * 2 + inputs[k])

\* Connective.evaluate: the bit of the truth table at the row of the inputs
evaluate(f, inputs) == (f.tt \div (2 ^ RowIndex(inputs, 1, 0))) % 2

\* the input tuple of a row: bit k (0-based) is (row >> (arity - 1 - k)) & 1
RowInputs(arity, row) ==
    [k \in 1..arity |-> (row \div (2 ^ (arity - k))) % 2]

Rows(arity) == 0..(2 ^ arity - 1)

Bit == {0, 1}

\* the elements of a list
Elems(s) == {s[k] : k \in 1..Len(s)}

\* [b for b in basis if b.arity == a]
OfArity(basis, a) == {b \in Elems(basis) : b.arity = a}

-----------------------------------------------------------------------------
(* Depth 1: a basis function of the same arity under a permutation *)

Permutations(n) ==
    {p \in [1..n -> 1..n] : \A a, b \in 1..n : a # b => p[a] # p[b]}

_check_permutation_match(t, candidate, perm) ==
    \A row \in Rows(t.arity) :
        LET target_inputs    == RowInputs(t.arity, row)
            candidate_inputs == [k \in 1..candidate.arity |-> target_inputs[perm[k]]]
        IN  evaluate(t, target_inputs) = evaluate(candidate, candidate_inputs)

\* only the variables' own order is tried
_check_with_permutations_identity_only(t, candidate) ==
    IF t.arity # candidate.arity THEN FALSE
    ELSE _check_permutation_match(t, candidate, [k \in 1..t.arity |-> k])

_check_with_permutations(t, candidate) ==
    IF t.arity # candidate.arity THEN FALSE
    ELSE \E perm \in Permutations(t.arity) :
            _check_permutation_match(t, candidate, perm)

\* only the first function of the basis is tried
_check_depth_one_first_only(t, basis) ==
    /\ basis # <<>>
    /\ basis[1].arity = t.arity
    /\ _check_with_permutations(t, basis[1])

_check_depth_one(t, basis) ==
    \E b \in Elems(basis) :
        b.arity = t.arity /\ _check_with_permutations(t, b)

-----------------------------------------------------------------------------
(* Depth >= 2: the catalogue of composition shapes *)

\* any same-valued constant function of the basis is taken to define the target
_check_constant_compositions_any_arity(t, basis, depth) ==
    \E c \in Elems(basis) :
        \A row \in Rows(c.arity) : evaluate(c, RowInputs(c.arity, row)) = t.tt

_check_constant_compositions(t, basis, depth) ==
    /\ depth >= 1
    /\ \E u \in OfArity(basis, 1) : \E c \in OfArity(basis, 0) :
          evaluate(u, <<c.tt>>) = t.tt

_check_unary_compositions(t, basis, depth) ==
    \/ /\ depth >= 1
       /\ \/ \E f \in OfArity(basis, 2) : \E c \in OfArity(basis, 0) :
                \/ \A x \in Bit : evaluate(f, <<x, c.tt>>) = evaluate(t, <<x>>)
                \/ \A x \in Bit : evaluate(f, <<c.tt, x>>) = evaluate(t, <<x>>)
          \/ \E f \in OfArity(basis, 2) :
                \A x \in Bit : evaluate(f, <<x, x>>) = evaluate(t, <<x>>)
    \/ /\ depth >= 2
       /\ \E u \in OfArity(basis, 1) : \E v \in OfArity(basis, 1) :
             \A x \in Bit :
                evaluate(u, <<evaluate(v, <<x>>)>>) = evaluate(t, <<x>>)

\* g(x,y), g(x) or x; an inner function of any other arity ends the check
\* with False (lines 413-414, 423-424)
InnerArityOk(g) == g = None \/ g.arity = 1 \/ g.arity = 2

\* every row is taken to agree
_try_composition_f_g_h_accepts(t, f, g, h) == TRUE

_try_composition_f_g_h(t, f, g, h) ==
    /\ InnerArityOk(g)
    /\ InnerArityOk(h)
    /\ \A x \in Bit : \A y \in Bit :
        LET g_result == IF g = None THEN x
                        ELSE IF g.arity = 1 THEN evaluate(g, <<x>>)
                        ELSE evaluate(g, <<x, y>>)
            h_result == IF h = None THEN y
                        ELSE IF h.arity = 1 THEN evaluate(h, <<y>>)
                        ELSE evaluate(h, <<x, y>>)
        IN  evaluate(f, <<g_result, h_result>>) = evaluate(t, <<x, y>>)

_try_unary_binary_composition(t, f, g) ==
    \A x \in Bit : \A y \in Bit :
        evaluate(f, <<evaluate(g, <<x, y>>)>>) = evaluate(t, <<x, y>>)

_try_binary_unary_unary_composition(t, f, g, h) ==
    \A x \in Bit : \A y \in Bit :
        LET g_result == IF g = None THEN x ELSE evaluate(g, <<x>>)
            h_result == IF h = None THEN y ELSE evaluate(h, <<y>>)
        IN  evaluate(f, <<g_result, h_result>>) = evaluate(t, <<x, y>>)

_try_unary_binary_unary_unary_composition(t, f, g, h, i2) ==
    \A x \in Bit : \A y \in Bit :
        LET h_result == IF h = None THEN x ELSE evaluate(h, <<x>>)
            i_result == IF i2 = None THEN y ELSE evaluate(i2, <<y>>)
            g_result == evaluate(g, <<h_result, i_result>>)
        IN  evaluate(f, <<g_result>>) = evaluate(t, <<x, y>>)

_try_binary_const_binary(t, f, const_val, g, left_const) ==
    \A x \in Bit : \A y \in Bit :
        LET g_result == IF g = None THEN x ELSE evaluate(g, <<x, y>>)
            f_result == IF left_const THEN evaluate(f, <<const_val, g_result>>)
                        ELSE evaluate(f, <<g_result, const_val>>)
        IN  f_result = evaluate(t, <<x, y>>)

_try_binary_const_var(t, f, const_val, left_const) ==
    \A x \in Bit : \A y \in Bit :
        LET f_result == IF left_const THEN evaluate(f, <<const_val, y>>)
                        ELSE evaluate(f, <<x, const_val>>)
        IN  f_result = evaluate(t, <<x, y>>)

\* f(c, u(v)) or f(u(v), c) on one row, v the variable the unary function reads
ConstUnaryRow(f, const_val, u, v, left_const) ==
    IF left_const THEN evaluate(f, <<const_val, evaluate(u, <<v>>)>>)
    ELSE evaluate(f, <<evaluate(u, <<v>>), const_val>>)

\* The first pair of loops (lines 741-751): the break on a mismatching row
\* leaves the inner "for y" only, so the outer "for x" always runs to its
\* end and its else clause returns True.  OuterLoopBroken is whether the
\* outer loop ended by break: never.
_try_binary_const_unary(t, f, const_val, u, left_const) ==
    LET OuterLoopBroken == FALSE
    IN  IF ~OuterLoopBroken THEN TRUE
        ELSE \A x \in Bit : \A y \in Bit :
                ConstUnaryRow(f, const_val, u, y, left_const) = evaluate(t, <<x, y>>)

_check_binary_constant_patterns(t, binary_basis, unary_basis, nullary_basis) ==
    \E f \in binary_basis : \E c \in nullary_basis :
        LET const_val == evaluate(c, <<>>)
        IN  \/ \E g \in binary_basis \cup {None} :
                  _try_binary_const_binary(t, f, const_val, g, TRUE)
            \/ \E g \in binary_basis \cup {None} :
                  _try_binary_const_binary(t, f, const_val, g, FALSE)
            \/ _try_binary_const_var(t, f, const_val, TRUE)
            \/ _try_binary_const_var(t, f, const_val, FALSE)
            \/ \E u \in unary_basis :
                  \/ _try_binary_const_unary(t, f, const_val, u, TRUE)
                  \/ _try_binary_const_unary(t, f, const_val, u, FALSE)

_try_binary_unary_binary_unary_binary(t, f, u, g, v, h) ==
    \A x \in Bit : \A y \in Bit :
        LET g_result     == evaluate(g, <<x, y>>)
            left_result  == IF u = None THEN g_result ELSE evaluate(u, <<g_result>>)
            h_result     == IF h = None THEN g_result
                            ELSE IF h = g THEN g_result
                            ELSE evaluate(h, <<x, y>>)
            right_result == IF v = None THEN h_result ELSE evaluate(v, <<h_result>>)
        IN  evaluate(f, <<left_result, right_result>>) = evaluate(t, <<x, y>>)

_check_binary_unary_binary_patterns(t, binary_basis, unary_basis) ==
    \E f \in binary_basis :
      \E u \in unary_basis \cup {None} : \E v \in unary_basis \cup {None} :
        \E g \in binary_basis : \E h \in binary_basis \cup {None} :
            _try_binary_unary_binary_unary_binary(t, f, u, g, v, h)

_try_unary_unary_binary(t, u, v, f) ==
    \A x \in Bit : \A y \in Bit :
        evaluate(u, <<evaluate(v, <<evaluate(f, <<x, y>>)>>)>>) = evaluate(t, <<x, y>>)

_check_unary_chain_binary(t, binary_basis, unary_basis) ==
    \E f \in binary_basis : \E u \in unary_basis : \E v \in unary_basis :
        _try_unary_unary_binary(t, u, v, f)

_try_f_proj_composed(t, f, g, h1, h2, left_proj) ==
    \A x \in Bit : \A y \in Bit :
        LET h1_result == IF h1 = None THEN x ELSE evaluate(h1, <<x, y>>)
            h2_result == IF h2 = None THEN y ELSE evaluate(h2, <<x, y>>)
            g_result  == evaluate(g, <<h1_result, h2_result>>)
            f_result  == IF left_proj THEN evaluate(f, <<x, g_result>>)
                         ELSE evaluate(f, <<g_result, y>>)
        IN  f_result = evaluate(t, <<x, y>>)

\* the depth-2 shapes without constants: f(g, h), unary(binary(x,y)),
\* binary(unary(x), unary(y)) (lines 327-345)
BinaryDepthTwoShapes(t, binary_basis, unary_basis) ==
    \/ \E f \in binary_basis :
         \E g \in binary_basis \cup unary_basis \cup {None} :
           \E h \in binary_basis \cup unary_basis \cup {None} :
              _try_composition_f_g_h(t, f, g, h)
    \/ \E f \in unary_basis : \E g \in binary_basis :
          _try_unary_binary_composition(t, f, g)
    \/ \E f \in binary_basis :
         \E g \in unary_basis \cup {None} : \E h \in unary_basis \cup {None} :
              _try_binary_unary_unary_composition(t, f, g, h)

\* no pattern reserved for depth 3 is tried
BinaryDepthThreeShapes_none(t, binary_basis, unary_basis) == FALSE

\* the depth-3 shapes (lines 354-382)
BinaryDepthThreeShapes(t, binary_basis, unary_basis) ==
    \/ \E f \in unary_basis : \E g \in binary_basis :
         \E h \in unary_basis \cup {None} : \E i2 \in unary_basis \cup {None} :
              _try_unary_binary_unary_unary_composition(t, f, g, h, i2)
    \/ _check_binary_unary_binary_patterns(t, binary_basis, unary_basis)
    \/ _check_unary_chain_binary(t, binary_basis, unary_basis)
    \/ \E f \in binary_basis : \E g \in binary_basis :
         \E h1 \in binary_basis \cup {None} : \E h2 \in binary_basis \cup {None} :
              \/ _try_f_proj_composed(t, f, g, h1, h2, TRUE)
              \/ _try_f_proj_composed(t, f, g, h1, h2, FALSE)

_check_binary_compositions(t, basis, depth) ==
    LET binary_basis  == OfArity(basis, 2)
        unary_basis   == OfArity(basis, 1)
        nullary_basis == OfArity(basis, 0)
    IN  \/ /\ depth >= 2
           /\ \/ BinaryDepthTwoShapes(t, binary_basis, unary_basis)
              \/ /\ nullary_basis # {}
                 /\ _check_binary_constant_patterns(t, binary_basis, unary_basis,
                                                     nullary_basis)
        \/ /\ depth >= 3
           /\ BinaryDepthThreeShapes(t, binary_basis, unary_basis)

_try_unary_ternary_composition(t, f, g) ==
    \A x \in Bit : \A y \in Bit : \A z \in Bit :
        evaluate(f, <<evaluate(g, <<x, y, z>>)>>) = evaluate(t, <<x, y, z>>)

_try_ternary_unary_unary_unary(t, f, u, v, w) ==
    \A x \in Bit : \A y \in Bit : \A z \in Bit :
        LET u_result == IF u = None THEN x ELSE evaluate(u, <<x>>)
            v_result == IF v = None THEN y ELSE evaluate(v, <<y>>)
            w_result == IF w = None THEN z ELSE evaluate(w, <<z>>)
        IN  evaluate(f, <<u_result, v_result, w_result>>) = evaluate(t, <<x, y, z>>)

_check_ternary_compositions(t, basis, depth) ==
    LET ternary_basis == OfArity(basis, 3)
        unary_basis   == OfArity(basis, 1)
    IN  /\ depth >= 2
        /\ \/ \E f \in unary_basis : \E g \in ternary_basis :
                 _try_unary_ternary_composition(t, f, g)
           \/ \E f \in ternary_basis :
                \E u \in unary_basis \cup {None} : \E v \in unary_basis \cup {None} :
                  \E w \in unary_basis \cup {None} :
                     _try_ternary_unary_unary_unary(t, f, u, v, w)

_check_composition_enumeration(t, basis, depth) ==
    IF t.arity = 0 THEN _check_constant_compositions(t, basis, depth)
    ELSE IF t.arity = 1 THEN _check_unary_compositions(t, basis, depth)
    ELSE IF t.arity = 2 THEN _check_binary_compositions(t, basis, depth)
    ELSE IF t.arity = 3 THEN _check_ternary_compositions(t, basis, depth)
    ELSE FALSE

_is_definable_at_depth(t, basis, depth) ==
    IF depth = 1 THEN _check_depth_one(t, basis)
    ELSE _check_composition_enumeration(t, basis, depth)

\* only the requested depth is tried, without iterative deepening
DepthRange_only_max(d) == {d}

\* the depths is_definable tries: range(1, max_depth + 1)
DepthRange(d) == 1..d

\* the quick check on a target in the basis returns False
is_definable_quick_check_false(t, basis, d, m) ==
    IF basis = <<>> THEN FALSE
    ELSE IF t \in Elems(basis) THEN FALSE
    ELSE \E depth \in DepthRange(d) : _is_definable_at_depth(t, basis, depth)

\* is_definable: the mode is accepted and never read
is_definable(t, basis, d, m) ==
    IF basis = <<>> THEN FALSE
    ELSE IF t \in Elems(basis) THEN TRUE
    ELSE \E depth \in DepthRange(d) : _is_definable_at_depth(t, basis, depth)

-----------------------------------------------------------------------------
(* The operations of the enumeration backend, run on a list of connectives *)

\* the pair is_definable_z3_sat returns; NotReturned before the return
NotReturned == [definable |-> FALSE, witness |-> <<>>]

\* no call of connectives.py / z3_proof.py made yet
NoArgs == [op |-> "none"]

\* logging.warning / logging.error of is_definable_z3_sat: the message names
\* the depth
Log(level, depth) == [level |-> level, depth |-> depth]

\* nothing logged
NoLog == Log("none", 0)

\* the connectives the lists are drawn from
Pool == {CONST_FALSE, NOT, AND, XOR, PROJECT_X}

\* the constant functions of arity 0 to 3
Constants == {CONST_FALSE, CONST_TRUE, CONST_0_UNARY, CONST_1_UNARY,
              CONST_FALSE_BIN, CONST_TRUE_BIN, FALSE_3, TRUE_3}

\* the targets of the definability queries
Targets == Pool \cup {PROJECT_Y, OR, NAND, IMPLIES, CONVERSE_IMP} \cup Constants

Lists(S, n) == UNION {[1..k -> S] : k \in 0..n}

\* lists the tests call the operations with
TestLists ==
    {<<NOT, AND, OR>>, <<AND, NOT, NAND>>, <<NAND, NOT, AND>>,
     <<IMPLIES>>, <<CONVERSE_IMP>>, <<IMPLIES, CONVERSE_IMP>>, <<NAND>>}
        \cup {<<c>> : c \in Constants}

\* connectives[:i] + connectives[i:]: the element itself stays in the basis
Others_keeps_target(list, k) == SubSeq(list, 1, k - 1) \o SubSeq(list, k, Len(list))

\* connectives[:i] + connectives[i+1:], i 1-based here
Others(list, k) == SubSeq(list, 1, k - 1) \o SubSeq(list, k + 1, Len(list))

Init ==
    /\ connectives \in Lists(Pool, MaxLen) \cup TestLists
    /\ pc = "idle"
    /\ target = None
    /\ max_depth = 0
    /\ mode = SYNTACTIC
    /\ i = 0
    /\ independent = <<>>
    /\ result = FALSE
    /\ redundant = {}
    /\ first_run = <<>>
    /\ z3_depth = 0
    /\ model = <<>>
    /\ witness = <<>>
    /\ last_log = NoLog
    /\ ret = NotReturned
    /\ args = NoArgs
    /\ _READABLE_NAMES = <<>>
    /\ conn = <<>>
    /\ solver = {}
    /\ blocked_set_indices = <<>>
    /\ candidates_checked = 0
    /\ nice_sets_found = <<>>
    /\ checkpoint_file = <<>>
    /\ checkpoint = <<>>

\* is_definable(target, connectives, max_depth, mode=mode)
IsDefinable ==
    /\ pc = "idle"
    /\ \E t \in Targets : \E d \in 1..MaxDepth : \E m \in DefinabilityMode :
          /\ target' = t
          /\ max_depth' = d
          /\ mode' = m
          /\ result' = is_definable(t, connectives, d, m)
    /\ pc' = "is_definable_done"
    /\ UNCHANGED <<connectives, i, independent, redundant, first_run, z3vars, modulevars>>

\* is_independent: entry, and the return for a list of at most one element
IsIndependentCall ==
    /\ pc = "idle"
    /\ \E d \in 1..MaxDepth : \E m \in DefinabilityMode :
          /\ max_depth' = d
          /\ mode' = m
    /\ IF Len(connectives) <= 1
       THEN /\ result' = TRUE
            /\ pc' = "is_independent_done"
            /\ i' = i
       ELSE /\ i' = 1
            /\ pc' = "is_independent_loop"
            /\ result' = result
    /\ UNCHANGED <<connectives, target, independent, redundant, first_run, z3vars, modulevars>>

\* is_independent: one round of the loop over the elements
IsIndependentStep ==
    /\ pc = "is_independent_loop"
    /\ i <= Len(connectives)
    /\ IF is_definable(connectives[i], Others(connectives, i), max_depth, mode)
       THEN /\ result' = FALSE
            /\ pc' = "is_independent_done"
            /\ i' = i
       ELSE /\ i' = i + 1
            /\ UNCHANGED <<pc, result>>
    /\ UNCHANGED <<connectives, target, max_depth, mode, independent, redundant, first_run, z3vars, modulevars>>

\* is_independent: the loop ended without finding a definable element
IsIndependentReturn ==
    /\ pc = "is_independent_loop"
    /\ i > Len(connectives)
    /\ result' = TRUE
    /\ pc' = "is_independent_done"
    /\ UNCHANGED <<connectives, target, max_depth, mode, i, independent, redundant, first_run, z3vars, modulevars>>

\* get_independent_subset: entry, and the return for the empty list
GetIndependentSubsetCall ==
    /\ pc = "idle"
    /\ \E d \in 1..MaxDepth : max_depth' = d
    /\ independent' = <<>>
    /\ IF connectives = <<>>
       THEN pc' = "get_independent_subset_done" /\ i' = i
       ELSE pc' = "get_independent_subset_loop" /\ i' = 1
    /\ UNCHANGED <<connectives, target, mode, result, redundant, first_run, z3vars, modulevars>>

\* the elements are visited from either end of the list, as from a set
\* without an order
GetIndependentSubsetStep_unordered ==
    /\ pc = "get_independent_subset_loop"
    /\ i <= Len(connectives)
    /\ \E c \in {connectives[i], connectives[Len(connectives) + 1 - i]} :
           IF ~is_definable(c, independent, max_depth, SYNTACTIC)
           THEN independent' = Append(independent, c)
           ELSE independent' = independent
    /\ i' = i + 1
    /\ UNCHANGED <<connectives, pc, target, max_depth, mode, result, redundant, first_run,
                   z3vars, modulevars>>

\* each element is tested against the whole input list
GetIndependentSubsetStep_against_input ==
    /\ pc = "get_independent_subset_loop"
    /\ i <= Len(connectives)
    /\ LET c == connectives[i]
       IN  IF ~is_definable(c, connectives, max_depth, SYNTACTIC)
           THEN independent' = Append(independent, c)
           ELSE independent' = independent
    /\ i' = i + 1
    /\ UNCHANGED <<connectives, pc, target, max_depth, mode, result, redundant, first_run, z3vars, modulevars>>

\* get_independent_subset: one round of the greedy loop
GetIndependentSubsetStep ==
    /\ pc = "get_independent_subset_loop"
    /\ i <= Len(connectives)
    /\ LET c == connectives[i]
       IN  IF ~is_definable(c, independent, max_depth, SYNTACTIC)
           THEN independent' = Append(independent, c)
           ELSE independent' = independent
    /\ i' = i + 1
    /\ UNCHANGED <<connectives, pc, target, max_depth, mode, result, redundant, first_run, z3vars, modulevars>>

\* get_independent_subset: return independent
GetIndependentSubsetReturn ==
    /\ pc = "get_independent_subset_loop"
    /\ i > Len(connectives)
    /\ pc' = "get_independent_subset_done"
    /\ UNCHANGED <<connectives, target, max_depth, mode, i, independent, result, redundant, first_run, z3vars, modulevars>>

\* redundant.add(i), i 0-based
AddIndex_first_only(set, k) == IF set = {} THEN {k - 1} ELSE set

\* redundant.add(i), i 0-based
AddIndex(set, k) == set \cup {k - 1}

\* find_redundant_connectives: entry
FindRedundantCall ==
    /\ pc = "idle"
    /\ \E d \in 1..MaxDepth : max_depth' = d
    /\ redundant' = {}
    /\ i' = 1
    /\ pc' = "find_redundant_loop"
    /\ UNCHANGED <<connectives, target, mode, independent, result, first_run, z3vars, modulevars>>

\* the basis of a round is the whole list, the element itself included
FindRedundantStep_basis_keeps_target ==
    /\ pc = "find_redundant_loop"
    /\ i <= Len(connectives)
    /\ IF is_definable(connectives[i], connectives, max_depth, SYNTACTIC)
       THEN redundant' = AddIndex(redundant, i)
       ELSE redundant' = redundant
    /\ i' = i + 1
    /\ UNCHANGED <<connectives, pc, target, max_depth, mode, independent, result, first_run, z3vars, modulevars>>

\* find_redundant_connectives: one round of the loop over the elements
FindRedundantStep ==
    /\ pc = "find_redundant_loop"
    /\ i <= Len(connectives)
    /\ IF is_definable(connectives[i], Others(connectives, i), max_depth, SYNTACTIC)
       THEN redundant' = AddIndex(redundant, i)
       ELSE redundant' = redundant
    /\ i' = i + 1
    /\ UNCHANGED <<connectives, pc, target, max_depth, mode, independent, result, first_run, z3vars, modulevars>>

\* find_redundant_connectives: return redundant
FindRedundantReturn ==
    /\ pc = "find_redundant_loop"
    /\ i > Len(connectives)
    /\ pc' = "find_redundant_done"
    /\ UNCHANGED <<connectives, target, max_depth, mode, i, independent, result,
                   redundant, first_run, z3vars, modulevars>>

\* get_independent_subset called again with the same list and max_depth
GetIndependentSubsetAgain ==
    /\ pc = "get_independent_subset_done"
    /\ first_run = <<>>
    /\ first_run' = <<independent>>
    /\ independent' = <<>>
    /\ IF connectives = <<>>
       THEN pc' = "get_independent_subset_done" /\ i' = i
       ELSE pc' = "get_independent_subset_loop" /\ i' = 1
    /\ UNCHANGED <<connectives, target, max_depth, mode, result, redundant, z3vars, modulevars>>

Next ==
    \/ IsDefinable
    \/ IsIndependentCall
    \/ IsIndependentStep
    \/ IsIndependentReturn
    \/ GetIndependentSubsetCall
    \/ GetIndependentSubsetStep
    \/ GetIndependentSubsetReturn
    \/ GetIndependentSubsetAgain
    \/ FindRedundantCall
    \/ FindRedundantStep
    \/ FindRedundantReturn

Spec == Init /\ [][Next]_vars

-----------------------------------------------------------------------------
(* The SAT composition-tree checker: src/independence_z3.py *)

\* _build_tree_structure: a complete binary tree of 2^depth - 1 nodes,
\* node 0 the root
NumNodes(d) == 2 ^ d - 1

Nodes(d) == 0..(NumNodes(d) - 1)

\* children[n]: 2n+1 and 2n+2 when they are nodes
Children(d, n) ==
    (IF 2 * n + 1 < NumNodes(d) THEN <<2 * n + 1>> ELSE <<>>)
        \o (IF 2 * n + 2 < NumNodes(d) THEN <<2 * n + 2>> ELSE <<>>)

Leaves(d) == {n \in Nodes(d) : Children(d, n) = <<>>}

\* leaves.index(leaf)
LeafIndex(d, leaf) == Cardinality({l \in Leaves(d) : l < leaf})

\* the value a leaf is pinned to on a row (var_value)
LeafValue(t, d, leaf, row) ==
    IF t.arity = 0 THEN 0
    ELSE IF t.arity = 1 THEN RowInputs(t.arity, row)[1]
    ELSE RowInputs(t.arity, row)[(LeafIndex(d, leaf) % t.arity) + 1]

\* _encode_tree_choices: one choice variable per node and basis function,
\* exactly one of them true at each node (PbEq): an assignment of the
\* choice variables is the index of the function chosen at each node
Choices(basis, nodes) == [nodes -> 1..Len(basis)]

\* _encode_tree_outputs: one output variable per node and input row
OutputVectors(t) == [Rows(t.arity) -> Bit]

\* the constraint _encode_tree_structure puts on an internal node, for the
\* function chosen there: none when its arity is neither 0, 1 nor 2
NodeConstraint(f, d, node, row, out) ==
    LET node_children == Children(d, node)
    IN  IF f.arity = 0 THEN out[node][row] = evaluate(f, <<>>)
        ELSE IF f.arity = 1 /\ Len(node_children) >= 1
             THEN out[node][row] = evaluate(f, <<out[node_children[1]][row]>>)
        ELSE IF f.arity = 2 /\ Len(node_children) >= 2
             THEN out[node][row] =
                    evaluate(f, <<out[node_children[1]][row], out[node_children[2]][row]>>)
        ELSE TRUE

\* _encode_tree_structure: the leaves are pinned to input variables, the
\* internal nodes follow the function chosen
_encode_tree_structure(m, t, basis, d) ==
    /\ \A leaf \in Leaves(d) : \A row \in Rows(t.arity) :
          m.out[leaf][row] = LeafValue(t, d, leaf, row)
    /\ \A node \in Nodes(d) \ Leaves(d) : \A row \in Rows(t.arity) :
          NodeConstraint(basis[m.choice[node]], d, node, row, m.out)

\* _encode_target_match: the root's output is the target's on every row
_encode_target_match(m, t) ==
    \A row \in Rows(t.arity) : m.out[0][row] = evaluate(t, RowInputs(t.arity, row))

\* the output vectors the constraints leave to a node, the outputs of the
\* nodes after it being out
NodeOutputs(t, basis, d, choice, node, out) ==
    LET f == basis[choice[node]]
        node_children == Children(d, node)
    IN  IF node_children = <<>>
        THEN {[row \in Rows(t.arity) |-> LeafValue(t, d, node, row)]}
        ELSE {v \in OutputVectors(t) :
                \A row \in Rows(t.arity) :
                    NodeConstraint(f, d, node, row,
                        [n \in node..(NumNodes(d) - 1) |-> IF n = node THEN v ELSE out[n]])}

RECURSIVE OutputsFrom(_, _, _, _, _)
\* the assignments of the output variables of the nodes node..last that
\* satisfy the constraints among these nodes (children come after parents)
OutputsFrom(t, basis, d, choice, node) ==
    IF node = NumNodes(d) THEN {<<>>}
    ELSE UNION {
            {[n \in node..(NumNodes(d) - 1) |-> IF n = node THEN v ELSE out[n]] :
                v \in NodeOutputs(t, basis, d, choice, node, out)} :
            out \in OutputsFrom(t, basis, d, choice, node + 1)}

\* solver.check() = sat: the models of the constraints of depth d. The
\* constraints read the choice of a leaf nowhere, so every model of the
\* internal nodes extends by every choice at the leaves
SatModels(t, basis, d) ==
    UNION {
        {[choice |-> [n \in Nodes(d) |-> IF n \in Leaves(d) THEN lc[n] ELSE ic[n]],
          out |-> out] :
            out \in {o \in OutputsFrom(t, basis, d, ic, 0) :
                        /\ _encode_tree_structure([choice |-> ic, out |-> o], t, basis, d)
                        /\ _encode_target_match([choice |-> ic, out |-> o], t)},
            lc \in Choices(basis, Leaves(d))} :
        ic \in Choices(basis, Nodes(d) \ Leaves(d))}

\* CompositionTree.__init__; an absent child or var_index is <<>>
CompositionTree(function, left_child, right_child, middle_child, var_index) ==
    [function |-> function, left_child |-> left_child, right_child |-> right_child,
     middle_child |-> middle_child, var_index |-> var_index]

\* the outcome of an evaluation that raises
Raised == 2

RECURSIVE CompositionTree_evaluate(_, _)
\* CompositionTree.evaluate: 0, 1, or Raised
CompositionTree_evaluate(tree, inputs) ==
    LET Input(k) == IF k <= Len(inputs) THEN inputs[k] ELSE Raised
        Child(c, k) == IF c = <<>> THEN Input(k)
                       ELSE CompositionTree_evaluate(c[1], inputs)
        f == tree.function
    IN  IF tree.var_index # <<>> THEN Input(tree.var_index[1] + 1)
        ELSE IF f.arity = 0 THEN evaluate(f, <<>>)
        ELSE IF f.arity = 1
             THEN IF tree.left_child = <<>> THEN Input(1)
                  ELSE LET child_result == CompositionTree_evaluate(tree.left_child[1], inputs)
                       IN  IF child_result = Raised THEN Raised
                           ELSE evaluate(f, <<child_result>>)
        ELSE IF f.arity = 2
             THEN LET left_result  == Child(tree.left_child, 1)
                      right_result == IF tree.right_child = <<>>
                                      THEN (IF Len(inputs) > 1 THEN Input(2) ELSE Input(1))
                                      ELSE CompositionTree_evaluate(tree.right_child[1], inputs)
                  IN  IF left_result = Raised \/ right_result = Raised THEN Raised
                      ELSE evaluate(f, <<left_result, right_result>>)
        ELSE IF f.arity = 3
             THEN LET left_result   == Child(tree.left_child, 1)
                      middle_result == Child(tree.middle_child, 2)
                      right_result  == Child(tree.right_child, 3)
                  IN  IF left_result = Raised \/ middle_result = Raised
                            \/ right_result = Raised
                      THEN Raised
                      ELSE evaluate(f, <<left_result, middle_result, right_result>>)
        ELSE Raised

\* _extract_witness_from_model raises on a function of arity above 2 chosen
\* at an internal node
ExtractionRaises(m, basis, d) ==
    \E node \in Nodes(d) \ Leaves(d) : basis[m.choice[node]].arity \notin {0, 1, 2}

RECURSIVE node_trees(_, _, _, _, _)
\* node_trees[node] of _extract_witness_from_model
node_trees(m, basis, d, num_inputs, node) ==
    LET selected_func == basis[m.choice[node]]
        node_children == Children(d, node)
    IN  IF node_children = <<>>
        THEN IF num_inputs > 0
             THEN CompositionTree(selected_func, <<>>, <<>>, <<>>,
                                  <<LeafIndex(d, node) % num_inputs>>)
             ELSE CompositionTree(selected_func, <<>>, <<>>, <<>>, <<>>)
        ELSE IF selected_func.arity = 1 /\ Len(node_children) >= 1
             THEN CompositionTree(selected_func,
                    <<node_trees(m, basis, d, num_inputs, node_children[1])>>,
                    <<>>, <<>>, <<>>)
        ELSE IF selected_func.arity = 2 /\ Len(node_children) >= 2
             THEN CompositionTree(selected_func,
                    <<node_trees(m, basis, d, num_inputs, node_children[1])>>,
                    <<node_trees(m, basis, d, num_inputs, node_children[2])>>,
                    <<>>, <<>>)
        ELSE CompositionTree(selected_func, <<>>, <<>>, <<>>, <<>>)

_extract_witness_from_model(m, basis, d, num_inputs) ==
    node_trees(m, basis, d, num_inputs, 0)

\* every row is compared whatever the witness
_verify_witness_unchecked(w, t) == TRUE

\* _verify_witness: TRUE when it returns True, FALSE when it raises
_verify_witness(w, t) ==
    \A row \in Rows(t.arity) :
        CompositionTree_evaluate(w, RowInputs(t.arity, row))
            = evaluate(t, RowInputs(t.arity, row))

\* the connectives the bases of is_definable_z3_sat are drawn from
PoolZ3 == {CONST_TRUE, NOT, AND}

\* the targets of is_definable_z3_sat
TargetsZ3 == PoolZ3 \cup {CONST_FALSE, IDENTITY, NAND, OR, PROJECT_X}

InitZ3 ==
    /\ connectives \in Lists(PoolZ3, MaxBasisZ3)
    /\ pc = "idle"
    /\ target = None
    /\ max_depth = 0
    /\ mode = SYNTACTIC
    /\ i = 0
    /\ independent = <<>>
    /\ result = FALSE
    /\ redundant = {}
    /\ first_run = <<>>
    /\ z3_depth = 0
    /\ model = <<>>
    /\ witness = <<>>
    /\ last_log = NoLog
    /\ ret = NotReturned
    /\ args = NoArgs
    /\ _READABLE_NAMES = <<>>
    /\ conn = <<>>
    /\ solver = {}
    /\ blocked_set_indices = <<>>
    /\ candidates_checked = 0
    /\ nice_sets_found = <<>>
    /\ checkpoint_file = <<>>
    /\ checkpoint = <<>>

enumvars == <<mode, i, independent, result, redundant, first_run>>

\* is_definable_z3_sat(target, connectives, max_depth): entry
IsDefinableZ3SatCall ==
    /\ pc = "idle"
    /\ \E t \in TargetsZ3 : \E d \in (1..MaxDepthZ3) \cup {DEFAULT_MAX_DEPTH} :
          /\ target' = t
          /\ max_depth' = d
    /\ z3_depth' = 1
    /\ pc' = "z3_loop"
    /\ UNCHANGED <<connectives, model, witness, last_log, ret, enumvars, modulevars>>

\* the loop tries the same depth again
NextDepth_same_depth ==
    /\ z3_depth' = z3_depth
    /\ pc' = "z3_loop"
    /\ model' = <<>>
    /\ witness' = <<>>

\* the next round of the loop over the depths (continue)
NextDepth ==
    /\ z3_depth' = z3_depth + 1
    /\ pc' = "z3_loop"
    /\ model' = <<>>
    /\ witness' = <<>>

\* solver.check() answers sat: the witness is extracted from the model
Z3CheckSat ==
    /\ pc = "z3_loop"
    /\ z3_depth <= max_depth
    /\ \E m \in SatModels(target, connectives, z3_depth) :
          IF ExtractionRaises(m, connectives, z3_depth)
          THEN /\ NextDepth
               /\ last_log' = Log("error", z3_depth)
          ELSE /\ model' = m
               /\ witness' = <<_extract_witness_from_model(m, connectives, z3_depth,
                                                            target.arity)>>
               /\ pc' = "z3_verify"
               /\ UNCHANGED <<z3_depth, last_log>>
    /\ UNCHANGED <<connectives, target, max_depth, ret, enumvars, modulevars>>

\* solver.check() answers unsat: try deeper
Z3CheckUnsat ==
    /\ pc = "z3_loop"
    /\ z3_depth <= max_depth
    /\ SatModels(target, connectives, z3_depth) = {}
    /\ NextDepth
    /\ UNCHANGED <<connectives, target, max_depth, last_log, ret, enumvars, modulevars>>

\* the answer unknown ends the call with (False, None)
Z3CheckUnknown_returns_false ==
    /\ pc = "z3_loop"
    /\ z3_depth <= max_depth
    /\ last_log' = Log("warning", z3_depth)
    /\ ret' = [definable |-> FALSE, witness |-> <<>>]
    /\ pc' = "z3_done"
    /\ UNCHANGED <<connectives, target, max_depth, z3_depth, model, witness, enumvars, modulevars>>

\* solver.check() answers unknown (the timeout expired): a warning is logged
Z3CheckUnknown ==
    /\ pc = "z3_loop"
    /\ z3_depth <= max_depth
    /\ NextDepth
    /\ last_log' = Log("warning", z3_depth)
    /\ UNCHANGED <<connectives, target, max_depth, ret, enumvars, modulevars>>

\* the solver raises: the exception is caught at the depth iteration
Z3Raises ==
    /\ pc = "z3_loop"
    /\ z3_depth <= max_depth
    /\ NextDepth
    /\ last_log' = Log("error", z3_depth)
    /\ UNCHANGED <<connectives, target, max_depth, ret, enumvars, modulevars>>

\* _verify_witness returns True: return (True, witness)
Z3VerifyReturns ==
    /\ pc = "z3_verify"
    /\ _verify_witness(witness[1], target)
    /\ ret' = [definable |-> TRUE, witness |-> witness]
    /\ pc' = "z3_done"
    /\ UNCHANGED <<connectives, target, max_depth, z3_depth, model, witness, last_log,
                   enumvars, modulevars>>

\* _verify_witness raises: the exception is caught at the depth iteration
Z3VerifyRaises ==
    /\ pc = "z3_verify"
    /\ ~_verify_witness(witness[1], target)
    /\ NextDepth
    /\ last_log' = Log("error", z3_depth)
    /\ UNCHANGED <<connectives, target, max_depth, ret, enumvars, modulevars>>

\* no witness found at any depth: return (False, None)
Z3ReturnFalse ==
    /\ pc = "z3_loop"
    /\ z3_depth > max_depth
    /\ ret' = [definable |-> FALSE, witness |-> <<>>]
    /\ pc' = "z3_done"
    /\ UNCHANGED <<connectives, target, max_depth, z3_depth, model, witness, last_log,
                   enumvars, modulevars>>

NextZ3 ==
    \/ IsDefinableZ3SatCall
    \/ Z3CheckSat
    \/ Z3CheckUnsat
    \/ Z3CheckUnknown
    \/ Z3Raises
    \/ Z3VerifyReturns
    \/ Z3VerifyRaises
    \/ Z3ReturnFalse

SpecZ3 == InitZ3 /\ [][NextZ3]_vars

-----------------------------------------------------------------------------
(* Construction of a composition tree by a caller: CompositionTree.__init__ *)

\* the functions the nodes are built from, one of each arity
TreeFunctions == {CONST_TRUE, NOT, AND, TRUE_3}

\* a leaf tagged with an input variable
VariableLeaf(k) == CompositionTree(IDENTITY, <<>>, <<>>, <<>>, <<k>>)

\* an optional child: absent, or one of the leaves x, y
OptionalChild == {<<>>, <<VariableLeaf(0)>>, <<VariableLeaf(1)>>}

\* an optional var_index
OptionalVarIndex == {<<>>, <<0>>}

InitTree ==
    /\ connectives = <<>>
    /\ pc = "idle"
    /\ target = None
    /\ max_depth = 0
    /\ mode = SYNTACTIC
    /\ i = 0
    /\ independent = <<>>
    /\ result = FALSE
    /\ redundant = {}
    /\ first_run = <<>>
    /\ z3_depth = 0
    /\ model = <<>>
    /\ witness = <<>>
    /\ last_log = NoLog
    /\ ret = NotReturned
    /\ args = NoArgs
    /\ _READABLE_NAMES = <<>>
    /\ conn = <<>>
    /\ solver = {}
    /\ blocked_set_indices = <<>>
    /\ candidates_checked = 0
    /\ nice_sets_found = <<>>
    /\ checkpoint_file = <<>>
    /\ checkpoint = <<>>

\* CompositionTree(function, left_child, right_child, middle_child, var_index):
\* the constructor stores its arguments and raises nothing
NewCompositionTree ==
    /\ pc = "idle"
    /\ \E f \in TreeFunctions : \E l \in OptionalChild : \E r \in OptionalChild :
         \E m \in OptionalChild : \E v \in OptionalVarIndex :
            witness' = <<CompositionTree(f, l, r, m, v)>>
    /\ pc' = "tree_constructed"
    /\ UNCHANGED <<connectives, target, max_depth, z3_depth, model, last_log, ret, enumvars, modulevars>>

NextTree == NewCompositionTree

SpecTree == InitTree /\ [][NextTree]_vars

-----------------------------------------------------------------------------
(* Properties of the enumeration backend *)

IsDefinableDone == pc = "is_definable_done"

\* the target occurs in the list, by arity and truth table
InBasis(t, list) == \E k \in 1..Len(list) : list[k] = t

\* the list with position k removed
WithoutPosition(list, k) ==
    [j \in 1..(Len(list) - 1) |-> IF j < k THEN list[j] ELSE list[j + 1]]

\* no element of the list is definable from the list without it
IndependentList(list, d, m) ==
    \A k \in 1..Len(list) : ~is_definable(list[k], WithoutPosition(list, k), d, m)

\* an agreement on every row with f(c, u(x)), f(c, u(y)), f(u(x), c) or f(u(y), c)
ConstUnaryShapeAgrees(t, f, const_val, u) ==
    \E left_const \in BOOLEAN :
        \/ \A x \in Bit : \A y \in Bit :
              ConstUnaryRow(f, const_val, u, x, left_const) = evaluate(t, <<x, y>>)
        \/ \A x \in Bit : \A y \in Bit :
              ConstUnaryRow(f, const_val, u, y, left_const) = evaluate(t, <<x, y>>)

\* some constant-involving binary shape agrees with the target on every row
ConstantShapeAgrees(t, binary_basis, unary_basis, nullary_basis) ==
    \E f \in binary_basis : \E c \in nullary_basis :
        \/ \E g \in binary_basis \cup {None} : \E left_const \in BOOLEAN :
              _try_binary_const_binary(t, f, c.tt, g, left_const)
        \/ \E left_const \in BOOLEAN : _try_binary_const_var(t, f, c.tt, left_const)
        \/ \E u \in unary_basis : ConstUnaryShapeAgrees(t, f, c.tt, u)

\* some catalogued shape of depth at most d agrees with the target on every row
SomeShapeAgrees(t, basis, d) ==
    \/ _check_depth_one(t, basis)
    \/ /\ d >= 2
       /\ \/ t.arity = 0 /\ _check_constant_compositions(t, basis, d)
          \/ t.arity = 1 /\ _check_unary_compositions(t, basis, d)
          \/ t.arity = 3 /\ _check_ternary_compositions(t, basis, d)
          \/ /\ t.arity = 2
             /\ \/ BinaryDepthTwoShapes(t, OfArity(basis, 2), OfArity(basis, 1))
                \/ ConstantShapeAgrees(t, OfArity(basis, 2), OfArity(basis, 1),
                                       OfArity(basis, 0))
                \/ /\ d >= 3
                   /\ BinaryDepthThreeShapes(t, OfArity(basis, 2), OfArity(basis, 1))

\* C1: when is_definable returns true for a target that is not in the
\* basis, some catalogued composition shape agrees with the target on
\* every input row.
C1_EnumerationSound ==
    (IsDefinableDone /\ result /\ ~InBasis(target, connectives))
        => SomeShapeAgrees(target, connectives, max_depth)

IsProjection(t) ==
    /\ t.arity >= 1
    /\ \E v \in 1..t.arity :
          \A row \in Rows(t.arity) :
              evaluate(t, RowInputs(t.arity, row)) = RowInputs(t.arity, row)[v]

\* C2: under the truth-functional mode every projection is definable from
\* every non-empty basis, at every max_depth >= 1.
C2_UniversalProjections ==
    (IsDefinableDone /\ mode = TRUTH_FUNCTIONAL /\ IsProjection(target)
        /\ connectives # <<>>)
        => result

IsConstant(t) == t.tt = 0 \/ t.tt = 2 ^ (2 ^ t.arity) - 1

ConstantValue(t) == t.tt % 2

\* C3: under the truth-functional mode a constant is definable from a
\* constant of another arity exactly when the two have the same value.
C3_CrossArityConstants ==
    (IsDefinableDone /\ mode = TRUTH_FUNCTIONAL /\ IsConstant(target)
        /\ Len(connectives) = 1 /\ IsConstant(connectives[1])
        /\ connectives[1].arity # target.arity)
        => (result <=> ConstantValue(target) = ConstantValue(connectives[1]))

\* C4: the list get_independent_subset returns is independent.
C4_SubsetIndependent ==
    pc = "get_independent_subset_done"
        => IndependentList(independent, max_depth, SYNTACTIC)

\* C7: reflexivity: is_definable is true whenever the target is an element
\* of the basis, in both modes and at every max_depth >= 1.
C7_Reflexive ==
    (IsDefinableDone /\ InBasis(target, connectives)) => result

C7_Witness ==
    /\ IsDefinableDone
    /\ InBasis(target, connectives)
    /\ Len(connectives) = MaxLen
    /\ connectives[MaxLen] = target
    /\ mode = TRUTH_FUNCTIONAL
    /\ max_depth = 1
    /\ result

\* C9: definability is monotone in the depth: a target found definable with
\* max_depth d is definable with every larger max_depth, and a list judged
\* dependent with max_depth d is dependent with every larger max_depth.
C9_MonotoneInDepth ==
    /\ (IsDefinableDone /\ result)
          => \A d2 \in max_depth..MaxDepth :
                is_definable(target, connectives, d2, mode)
    /\ (pc = "is_independent_done" /\ ~result)
          => \A d2 \in max_depth..MaxDepth :
                ~IndependentList(connectives, d2, mode)

\* a target found at depth 1 by a permutation only, asked with max_depth 1
C9_Witness ==
    /\ IsDefinableDone
    /\ result
    /\ max_depth = 1
    /\ ~InBasis(target, connectives)
    /\ is_definable(target, connectives, MaxDepth, mode)

\* C10: is_independent returns true for a list of at most one element, and
\* for a longer list returns false exactly when some element is definable
\* from the list without that position; a list with the same function twice
\* is never independent.
C10_IsIndependent ==
    pc = "is_independent_done"
        => /\ Len(connectives) <= 1 => result
           /\ Len(connectives) > 1
                => (~result <=> \E k \in 1..Len(connectives) :
                        is_definable(connectives[k], WithoutPosition(connectives, k),
                                     max_depth, mode))
           /\ (\E j, k \in 1..Len(connectives) : j # k /\ connectives[j] = connectives[k])
                => ~result

\* a dependent list without duplicates, and the dependency is not the first element
C10_Witness ==
    /\ pc = "is_independent_done"
    /\ Len(connectives) > 1
    /\ ~result
    /\ i > 1
    /\ \A j, k \in 1..Len(connectives) : j # k => connectives[j] # connectives[k]

-----------------------------------------------------------------------------
(* Properties of the SAT backend *)

\* the call is_definable_z3_sat(target, connectives, max_depth) has returned
IsDefinableZ3SatDone == pc = "z3_done"

\* the witness just extracted does not reproduce the target's truth table
WitnessFails == pc = "z3_verify" /\ ~_verify_witness(witness[1], target)

\* C5: when the witness extracted from a satisfying model does not reproduce
\* the target's truth table, is_definable_z3_sat aborts with an error that
\* reaches the caller: it neither goes on to the next depth nor returns a
\* not-found result
C5_VerificationFailureAborts ==
    [][WitnessFails => pc' \notin {"z3_loop", "z3_done"}]_vars

\* C6: every (True, witness) returned by is_definable_z3_sat has a witness,
\* and the witness evaluates to the target's output on every input row
C6_WitnessSound ==
    (IsDefinableZ3SatDone /\ ret.definable) =>
        /\ ret.witness # <<>>
        /\ \A row \in Rows(target.arity) :
              CompositionTree_evaluate(ret.witness[1], RowInputs(target.arity, row))
                  = evaluate(target, RowInputs(target.arity, row))

\* (True, witness) returned for AND from [NOT, AND], the witness a
\* composition found at depth 2
C6_Witness ==
    /\ IsDefinableZ3SatDone
    /\ ret.definable
    /\ target = AND
    /\ connectives = <<NOT, AND>>
    /\ z3_depth = 2
    /\ ret.witness # <<>>
    /\ ret.witness[1].function = AND

\* C8: is_definable_z3_sat reports definable, with a witness, for every
\* target that is an element of the basis and every max_depth >= 1 (here
\* for the calls in which the solver neither timed out nor raised)
C8_ReflexiveZ3 ==
    (IsDefinableZ3SatDone /\ InBasis(target, connectives) /\ max_depth >= 1
        /\ last_log = NoLog) =>
        (ret.definable /\ ret.witness # <<>>)

-----------------------------------------------------------------------------
(* Redundancy, known identities and depth one *)

\* the 0-based indices below position k whose element is definable from the
\* list with that position removed
RedundantBelow(list, k, d) ==
    {j - 1 : j \in {n \in 1..(k - 1) :
                      is_definable(list[n], WithoutPosition(list, n), d, SYNTACTIC)}}

\* C11: find_redundant_connectives(S, max_depth) returns exactly the indices
\* i such that S[i] is definable from S with position i removed; every
\* element is evaluated, and for [NOT, AND, OR] at max_depth 3 the result
\* contains index 2
C11_FindRedundant ==
    /\ pc = "find_redundant_loop" =>
          redundant = RedundantBelow(connectives, i, max_depth)
    /\ pc = "find_redundant_done" =>
          /\ i = Len(connectives) + 1
          /\ redundant = RedundantBelow(connectives, Len(connectives) + 1, max_depth)
          /\ (connectives = <<NOT, AND, OR>> /\ max_depth = 3) => 2 \in redundant

\* find_redundant_connectives([NOT, AND, OR], 3) has returned a set with OR's index
C11_Witness ==
    /\ pc = "find_redundant_done"
    /\ connectives = <<NOT, AND, OR>>
    /\ max_depth = 3
    /\ 2 \in redundant

\* C12: under the enumeration backend OR is definable from [NOT, AND] with
\* max_depth 3 and not with max_depth 1, and NAND is definable from
\* [NOT, AND] with max_depth 2
C12_KnownIdentities ==
    (IsDefinableDone /\ connectives = <<NOT, AND>>) =>
        /\ (target = OR /\ max_depth = 3) => result
        /\ (target = OR /\ max_depth = 1) => ~result
        /\ (target = NAND /\ max_depth = 2) => result

\* is_definable(OR, [NOT, AND], 3) has returned True
C12_Witness ==
    /\ IsDefinableDone
    /\ connectives = <<NOT, AND>>
    /\ target = OR
    /\ max_depth = 3
    /\ result

\* C13: from the basis [AND] alone, XOR is not definable at max_depth 2 in
\* either mode, and PROJECT_X is not definable in syntactic mode at any
\* max_depth from 1 to 3
C13_NotFromAndAlone ==
    (IsDefinableDone /\ connectives = <<AND>>) =>
        /\ (target = XOR /\ max_depth = 2) => ~result
        /\ (target = PROJECT_X /\ mode = SYNTACTIC /\ max_depth \in 1..3) => ~result

\* is_definable(XOR, [AND], 2, mode=TRUTH_FUNCTIONAL) has returned False
C13_Witness ==
    /\ IsDefinableDone
    /\ connectives = <<AND>>
    /\ target = XOR
    /\ max_depth = 2
    /\ mode = TRUTH_FUNCTIONAL
    /\ ~result

\* a list whose only element is a constant of the target's value and of
\* another arity
SameConstantOtherArity(t, list) ==
    /\ Len(list) = 1
    /\ IsConstant(t)
    /\ IsConstant(list[1])
    /\ ConstantValue(list[1]) = ConstantValue(t)
    /\ list[1].arity # t.arity

\* C14 as claimed: in syntactic mode a constant is not definable from a
\* basis whose only element is the same-valued constant of another arity,
\* for every pair of distinct arities from 0 to 3
C14_SyntacticCrossArity ==
    (IsDefinableDone /\ mode = SYNTACTIC /\ SameConstantOtherArity(target, connectives))
        => ~result

\* C14 as amended: the same, except that the unary constant is definable
\* from the same-valued binary constant at max_depth >= 2 (f(x, x))
C14_SyntacticCrossArityAmended ==
    (IsDefinableDone /\ mode = SYNTACTIC /\ SameConstantOtherArity(target, connectives))
        => (result <=> (target.arity = 1 /\ connectives[1].arity = 2 /\ max_depth >= 2))

\* is_definable(TRUE_3, [CONST_TRUE_BIN], mode=SYNTACTIC) has returned False
C14_Witness ==
    /\ IsDefinableDone
    /\ mode = SYNTACTIC
    /\ target = TRUE_3
    /\ connectives = <<CONST_TRUE_BIN>>
    /\ max_depth = 3
    /\ ~result

-----------------------------------------------------------------------------
(* The two backends *)

\* C15: for a binary target and a basis of unary and binary connectives at
\* max_depth 3, is_definable_z3_sat reports definable exactly when
\* is_definable does (here for the calls in which the solver neither timed
\* out nor raised and no witness failed verification)
C15_BackendsAgree ==
    (/\ IsDefinableZ3SatDone
     /\ max_depth = 3
     /\ target.arity = 2
     /\ \A k \in 1..Len(connectives) : connectives[k].arity \in {1, 2}
     /\ last_log = NoLog)
        => (ret.definable <=> is_definable(target, connectives, max_depth, SYNTACTIC))

\* C16: when the solver answers unknown or the solver call raises at depth
\* d, is_definable_z3_sat logs it and goes on to depth d+1 without failing;
\* once the depths are exhausted it returns (False, None); the loop visits
\* no depth beyond max_depth, and whatever it returns is either
\* (True, witness) with a witness or (False, None)
C16_SolverFailureHandled ==
    /\ [][(pc = "z3_loop" /\ last_log' # last_log)
            => (pc' = "z3_loop" /\ z3_depth' = z3_depth + 1 /\ ret' = ret)]_vars
    /\ [][(pc = "z3_loop" /\ z3_depth > max_depth)
            => (pc' = "z3_done" /\ ret' = [definable |-> FALSE, witness |-> <<>>])]_vars
    /\ [](pc \in {"z3_loop", "z3_verify"} => z3_depth <= max_depth + 1)
    /\ [](IsDefinableZ3SatDone =>
            \/ ret.definable /\ ret.witness # <<>>
            \/ ret = [definable |-> FALSE, witness |-> <<>>])

\* the solver answered unknown at depth max_depth and the call has returned
\* (False, None)
C16_Witness ==
    /\ IsDefinableZ3SatDone
    /\ last_log = Log("warning", max_depth)
    /\ ret = [definable |-> FALSE, witness |-> <<>>]

-----------------------------------------------------------------------------
(* The greedy independent subset *)

\* the elements of the input list left out of the result
LeftOut(list, kept) == Elems(list) \ Elems(kept)

\* C17: get_independent_subset returns a maximal subset: every element of
\* the input list left out of the result is definable, at the same
\* max_depth, from the returned list
C17_SubsetMaximal ==
    pc = "get_independent_subset_done" =>
        \A c \in LeftOut(connectives, independent) :
            is_definable(c, independent, max_depth, SYNTACTIC)

\* get_independent_subset([NOT, AND, OR], 3) has returned [NOT, AND], OR left out
C17_Witness ==
    /\ pc = "get_independent_subset_done"
    /\ connectives = <<NOT, AND, OR>>
    /\ max_depth = 3
    /\ independent = <<NOT, AND>>
    /\ LeftOut(connectives, independent) = {OR}

-----------------------------------------------------------------------------
(* Depth one *)

RECURSIVE TableIndex(_, _)
\* the row of the truth table an assignment a of the variables 1..n reads
TableIndex(a, n) == IF n = 0 THEN 0 ELSE 2 * TableIndex(a, n - 1) + a[n]

\* the value of f under the assignment a
ValueUnder(f, a) == (f.tt \div (2 ^ TableIndex(a, f.arity))) % 2

\* t is b with its input variables renamed by a bijection
VariablesPermuted(t, b) ==
    /\ b.arity = t.arity
    /\ \E sigma \in {p \in [1..t.arity -> 1..t.arity] :
                        \A j \in 1..t.arity : \E k \in 1..t.arity : p[k] = j} :
          \A a \in [1..t.arity -> Bit] :
              ValueUnder(t, a) = ValueUnder(b, [k \in 1..t.arity |-> a[sigma[k]]])

-----------------------------------------------------------------------------
(* Composition trees *)

\* the number of children a node was constructed with
ChildCount(tree) ==
    Len(tree.left_child) + Len(tree.middle_child) + Len(tree.right_child)

\* C20: constructing an application node (a node without var_index) whose
\* number of children differs from the arity of its function is rejected
\* with an arity-mismatch error: no such node is ever constructed
C20_ArityMismatchRejected ==
    (pc = "tree_constructed" /\ witness[1].var_index = <<>>) =>
        ChildCount(witness[1]) = witness[1].function.arity

-----------------------------------------------------------------------------
(* Connective objects: src/connectives.py *)

\* the arities and truth-table values handed to the constructor
Arities == -1..6

TruthTables == {-1, 0, 1, 2, 15, 16, 255, 256, 65536}

\* the name argument: None (<<>>), the empty string, or a caller's name
Names == {<<>>, <<"">>, <<"custom">>}

\* the argument lists of evaluate: bits, and two lists with a value that
\* is no bit
InputLists == UNION {[1..n -> {0, 1}] : n \in 0..MaxInputs} \cup {<<2>>, <<0, 2>>}

\* ALL_BINARY of src/constants.py, with the names given there
ALL_BINARY ==
    << [arity |-> 2, tt |-> 0,  name |-> "FALSE_2"],
       [arity |-> 2, tt |-> 1,  name |-> "NOR"],
       [arity |-> 2, tt |-> 2,  name |-> "INHIBIT"],
       [arity |-> 2, tt |-> 3,  name |-> "NOT_X"],
       [arity |-> 2, tt |-> 4,  name |-> "CONV_INHIBIT"],
       [arity |-> 2, tt |-> 5,  name |-> "NOT_Y"],
       [arity |-> 2, tt |-> 6,  name |-> "XOR"],
       [arity |-> 2, tt |-> 7,  name |-> "NAND"],
       [arity |-> 2, tt |-> 8,  name |-> "AND"],
       [arity |-> 2, tt |-> 9,  name |-> "IFF"],
       [arity |-> 2, tt |-> 10, name |-> "PROJ_Y"],
       [arity |-> 2, tt |-> 11, name |-> "IMP"],
       [arity |-> 2, tt |-> 12, name |-> "PROJ_X"],
       [arity |-> 2, tt |-> 13, name |-> "CONV_IMP"],
       [arity |-> 2, tt |-> 14, name |-> "OR"],
       [arity |-> 2, tt |-> 15, name |-> "TRUE_2"] >>

\* _init_readable_names: the mapping from (arity, truth_table) to a name
_init_readable_names ==
    [key \in ({0} \X {CONST_FALSE.tt, CONST_TRUE.tt})
                \cup ({1} \X {CONST_0_UNARY.tt, NOT.tt, IDENTITY.tt, CONST_1_UNARY.tt})
                \cup ({2} \X {ALL_BINARY[k].tt : k \in 1..Len(ALL_BINARY)}) |->
        IF key[1] = 0
        THEN (IF key[2] = CONST_FALSE.tt THEN "FALSE" ELSE "TRUE")
        ELSE IF key[1] = 1
        THEN (IF key[2] = CONST_0_UNARY.tt THEN "0"
              ELSE IF key[2] = NOT.tt THEN "NOT"
              ELSE IF key[2] = IDENTITY.tt THEN "ID"
              ELSE "1")
        ELSE LET last == CHOOSE k \in 1..Len(ALL_BINARY) :
                            /\ ALL_BINARY[k].tt = key[2]
                            /\ \A j \in (k + 1)..Len(ALL_BINARY) : ALL_BINARY[j].tt # key[2]
             IN  ALL_BINARY[last].name]

RECURSIVE Decimal(_)
\* str(n) of a non-negative integer
Decimal(n) ==
    LET digit == <<"0", "1", "2", "3", "4", "5", "6", "7", "8", "9">>[(n % 10) + 1]
    IN  IF n < 10 THEN digit ELSE Decimal(n \div 10) \o digit

\* f"f{arity}_{truth_table}"
DefaultName(arity, truth_table) ==
    "f" \o Decimal(arity) \o "_" \o Decimal(truth_table)

\* the lookup also stores the default name of a key it does not find
_get_readable_name_caches_default(table, arity, truth_table) ==
    LET names == IF table = <<>> THEN _init_readable_names ELSE table[1]
        key   == <<arity, truth_table>>
    IN  IF key \in DOMAIN names
        THEN [table |-> <<names>>, name |-> <<names[key]>>]
        ELSE [table |-> <<[k \in DOMAIN names \cup {key} |->
                              IF k = key THEN DefaultName(arity, truth_table)
                              ELSE names[k]]>>,
              name  |-> <<>>]

\* _get_readable_name(arity, truth_table): the table is built when it is
\* None; the result is the table after the call and the name found, <<>>
\* for None
_get_readable_name(table, arity, truth_table) ==
    LET names == IF table = <<>> THEN <<_init_readable_names>> ELSE table
    IN  [table |-> names,
         name  |-> IF <<arity, truth_table>> \in DOMAIN names[1]
                   THEN <<names[1][<<arity, truth_table>>]>>
                   ELSE <<>>]

\* Python's truth value of an optional string
Truthy(name) == name # <<>> /\ name # <<"">>

RECURSIVE BitLength(_)
\* int.bit_length() of a non-negative integer
BitLength(n) == IF n = 0 THEN 0 ELSE 1 + BitLength(n \div 2)

\* the constructor checks the arity only
Connective_init_raises_arity_only(arity, truth_table) ==
    ~(0 <= arity /\ arity <= 5)

\* Connective.__init__: TRUE when it raises ValueError. The test
\* 0 <= truth_table <= 2 ** table_size - 1 is made on the number of bits of
\* truth_table, as 2 ** 32 is beyond the integers of the model
Connective_init_raises(arity, truth_table) ==
    \/ ~(0 <= arity /\ arity <= 5)
    \/ LET table_size == 2 ^ arity
       IN  ~(0 <= truth_table /\ BitLength(truth_table) <= table_size)

\* the outcome of a call: raised, or returned with a value
Outcome(raised, value) == [raised |-> raised, value |-> value]

\* Connective.evaluate(*args): both call styles give the same inputs
Connective_evaluate(self, style, inputs) ==
    IF Len(inputs) # self.arity THEN Outcome(TRUE, <<>>)
    ELSE IF \E k \in 1..Len(inputs) : inputs[k] \notin {0, 1} THEN Outcome(TRUE, <<>>)
    ELSE Outcome(FALSE, <<evaluate(self, inputs)>>)

InitConnective ==
    /\ connectives = <<>>
    /\ pc = "idle"
    /\ target = None
    /\ max_depth = 0
    /\ mode = SYNTACTIC
    /\ i = 0
    /\ independent = <<>>
    /\ result = FALSE
    /\ redundant = {}
    /\ first_run = <<>>
    /\ z3_depth = 0
    /\ model = <<>>
    /\ witness = <<>>
    /\ last_log = NoLog
    /\ ret = NotReturned
    /\ args = NoArgs
    /\ _READABLE_NAMES = <<>>
    /\ conn = <<>>
    /\ solver = {}
    /\ blocked_set_indices = <<>>
    /\ candidates_checked = 0
    /\ nice_sets_found = <<>>
    /\ checkpoint_file = <<>>
    /\ checkpoint = <<>>

proofvars == <<solver, blocked_set_indices, candidates_checked, nice_sets_found,
               checkpoint_file, checkpoint>>

\* Connective(arity, truth_table, name)
NewConnective ==
    /\ \E arity \in Arities : \E truth_table \in TruthTables : \E name \in Names :
          /\ args' = [op |-> "Connective", arity |-> arity,
                      truth_table |-> truth_table, name |-> name]
          /\ IF Connective_init_raises(arity, truth_table)
             THEN /\ pc' = "connective_raised"
                  /\ ret' = Outcome(TRUE, <<>>)
                  /\ UNCHANGED <<_READABLE_NAMES, conn>>
             ELSE LET looked == IF Truthy(name)
                                THEN [table |-> _READABLE_NAMES, name |-> name]
                                ELSE _get_readable_name(_READABLE_NAMES, arity, truth_table)
                      self == [arity |-> arity, tt |-> truth_table,
                               name |-> IF Truthy(looked.name) THEN looked.name[1]
                                        ELSE DefaultName(arity, truth_table)]
                  IN  /\ pc' = "connective_constructed"
                      /\ conn' = <<self>>
                      /\ ret' = Outcome(FALSE, <<self>>)
                      /\ _READABLE_NAMES' = looked.table
    /\ UNCHANGED <<connectives, target, max_depth, z3_depth, model, witness, last_log,
                   enumvars, proofvars>>

\* conn.evaluate(inputs) / conn.evaluate(*inputs)
ConnectiveEvaluate ==
    /\ conn # <<>>
    /\ \E style \in {"tuple", "varargs"} : \E inputs \in InputLists :
          /\ args' = [op |-> "evaluate", style |-> style, inputs |-> inputs]
          /\ ret' = Connective_evaluate(conn[1], style, inputs)
          /\ pc' = IF Connective_evaluate(conn[1], style, inputs).raised
                   THEN "evaluate_raised" ELSE "evaluate_returned"
    /\ UNCHANGED <<connectives, target, max_depth, z3_depth, model, witness, last_log,
                   enumvars, proofvars, _READABLE_NAMES, conn>>

NextConnective ==
    \/ NewConnective
    \/ ConnectiveEvaluate

SpecConnective == InitConnective /\ [][NextConnective]_vars

\* the arguments of the last constructor call are out of range
OutOfRange ==
    \/ args.arity < 0
    \/ args.arity > 5
    \/ args.truth_table < 0
    \/ (args.arity \in 0..4 /\ args.truth_table > 2 ^ (2 ^ args.arity) - 1)

\* C21: constructing a Connective with an arity outside 0..5 or a truth
\* table that is negative or above 2^(2^arity) - 1 raises and produces no
\* object, and evaluating a Connective on a number of inputs different from
\* its arity raises and returns no value.
C21_InvalidArgumentsRaise ==
    /\ (args.op = "Connective" /\ OutOfRange)
          => (pc = "connective_raised" /\ ret.raised /\ ret.value = <<>>)
    /\ (args.op = "evaluate" /\ Len(args.inputs) # conn[1].arity)
          => (pc = "evaluate_raised" /\ ret.raised /\ ret.value = <<>>)
    /\ (args.op = "Connective" /\ ~OutOfRange)
          => (pc = "connective_constructed" /\ ~ret.raised /\ ret.value = conn
                /\ conn[1].arity = args.arity /\ conn[1].tt = args.truth_table)

C21_Witness ==
    /\ pc = "connective_raised"
    /\ args.arity = 2
    /\ args.truth_table = 16
    /\ ret.raised
    /\ conn # <<>>

\* the name the table built by _init_readable_names gives, or the default
TableName(arity, truth_table) ==
    IF <<arity, truth_table>> \in DOMAIN _init_readable_names
    THEN _init_readable_names[<<arity, truth_table>>]
    ELSE DefaultName(arity, truth_table)

\* C22: the name table is initialised at most once, by a construction that
\* needs a default name; once built its contents never change, and every
\* construction that needs a default name gets the name the table held when
\* it was built.
C22_NameTableBuiltOnce ==
    [][/\ _READABLE_NAMES # <<>> => _READABLE_NAMES' = _READABLE_NAMES
       /\ _READABLE_NAMES' # _READABLE_NAMES
            => /\ pc' = "connective_constructed"
               /\ ~Truthy(args'.name)
               /\ _READABLE_NAMES' = <<_init_readable_names>>
       /\ (pc' = "connective_constructed" /\ args'.op = "Connective" /\ args' # args
              /\ ~Truthy(args'.name))
            => /\ _READABLE_NAMES' # <<>>
               /\ conn'[1].name = TableName(args'.arity, args'.truth_table)]_vars

C22_Witness ==
    /\ _READABLE_NAMES # <<>>
    /\ pc = "connective_constructed"
    /\ args.name = <<"">>
    /\ conn[1].name = "TRUE_2"

-----------------------------------------------------------------------------
(* The SAT composition-tree checker on bases with a ternary function *)

\* bases that hold a function of arity 3
TernaryLists == {<<TRUE_3>>, <<NOT, TRUE_3>>, <<TRUE_3, NOT>>, <<CONST_TRUE, TRUE_3>>}

\* the targets asked of these bases
TargetsTernary == {NOT, IDENTITY, CONST_TRUE, CONST_FALSE}

InitZ3Ternary ==
    /\ connectives \in TernaryLists
    /\ pc = "idle"
    /\ target = None
    /\ max_depth = 0
    /\ mode = SYNTACTIC
    /\ i = 0
    /\ independent = <<>>
    /\ result = FALSE
    /\ redundant = {}
    /\ first_run = <<>>
    /\ z3_depth = 0
    /\ model = <<>>
    /\ witness = <<>>
    /\ last_log = NoLog
    /\ ret = NotReturned
    /\ args = NoArgs
    /\ _READABLE_NAMES = <<>>
    /\ conn = <<>>
    /\ solver = {}
    /\ blocked_set_indices = <<>>
    /\ candidates_checked = 0
    /\ nice_sets_found = <<>>
    /\ checkpoint_file = <<>>
    /\ checkpoint = <<>>

\* is_definable_z3_sat(target, connectives, max_depth): entry
IsDefinableZ3SatCallTernary ==
    /\ pc = "idle"
    /\ \E t \in TargetsTernary : \E d \in 1..MaxDepthZ3 :
          /\ target' = t
          /\ max_depth' = d
    /\ z3_depth' = 1
    /\ pc' = "z3_loop"
    /\ UNCHANGED <<connectives, model, witness, last_log, ret, enumvars, modulevars>>

NextZ3Ternary ==
    \/ IsDefinableZ3SatCallTernary
    \/ Z3CheckSat
    \/ Z3CheckUnsat
    \/ Z3CheckUnknown
    \/ Z3Raises
    \/ Z3VerifyReturns
    \/ Z3VerifyRaises
    \/ Z3ReturnFalse

SpecZ3Ternary == InitZ3Ternary /\ [][NextZ3Ternary]_vars

\* the values f takes on argument lists that start with the outputs of the
\* children of node on a row (a function of arity 0 has one value)
AppliedValues(f, d, node, row, out) ==
    LET node_children == Children(d, node)
    IN  {evaluate(f, a) :
            a \in {b \in [1..f.arity -> Bit] :
                     \A k \in 1..Len(node_children) :
                        k <= f.arity => b[k] = out[node_children[k]][row]}}

\* C23: in every model of the depth-d encoding, at every internal node and
\* on every row, the node's output is the value of the function chosen at
\* the node on its children's outputs, for basis functions of arity 0 to 3.
C23_StructuralConstraint ==
    (pc = "z3_loop" /\ z3_depth <= max_depth)
        => \A m \in SatModels(target, connectives, z3_depth) :
             \A node \in Nodes(z3_depth) \ Leaves(z3_depth) :
                \A row \in Rows(target.arity) :
                    m.out[node][row]
                        \in AppliedValues(connectives[m.choice[node]], z3_depth,
                                          node, row, m.out)

-----------------------------------------------------------------------------
(* Properties of the loop over the depths *)

\* C24: within one call of is_definable_z3_sat the depths are attempted in
\* the order 1, 2, ..., max_depth, each at most once, and none is attempted
\* after the depth whose witness passed verification.
C24_DepthOrder ==
    /\ [](pc \in {"z3_loop", "z3_verify", "z3_done"} =>
            (1 <= z3_depth /\ z3_depth <= max_depth + 1))
    /\ [](pc = "z3_verify" => z3_depth <= max_depth)
    /\ [][/\ pc = "idle" => (pc' = "z3_loop" /\ z3_depth' = 1)
          /\ pc = "z3_loop" =>
                \/ pc' = "z3_loop" /\ z3_depth' = z3_depth + 1 /\ z3_depth <= max_depth
                \/ pc' = "z3_verify" /\ z3_depth' = z3_depth /\ z3_depth <= max_depth
                \/ pc' = "z3_done" /\ z3_depth' = z3_depth /\ z3_depth = max_depth + 1
                      /\ ~ret'.definable
          /\ pc = "z3_verify" =>
                \/ pc' = "z3_loop" /\ z3_depth' = z3_depth + 1
                \/ pc' = "z3_done" /\ z3_depth' = z3_depth /\ ret'.definable
                      /\ _verify_witness(witness[1], target)
          /\ pc = "z3_done" => FALSE]_vars

C24_Witness ==
    /\ pc = "z3_done"
    /\ ret.definable
    /\ z3_depth = 2
    /\ max_depth = 3

-----------------------------------------------------------------------------
(* Properties of the depth of the unary shapes *)

\* a unary target equals f(x, c), f(c, x) or f(x, x) on both rows, f a
\* binary and c a nullary element of the list
UnaryShapeAgrees(t, list) ==
    \E f \in OfArity(list, 2) :
        \/ \A x \in Bit : evaluate(f, <<x, x>>) = evaluate(t, <<x>>)
        \/ \E c \in OfArity(list, 0) :
              \/ \A x \in Bit : evaluate(f, <<x, evaluate(c, <<>>)>>) = evaluate(t, <<x>>)
              \/ \A x \in Bit : evaluate(f, <<evaluate(c, <<>>), x>>) = evaluate(t, <<x>>)

\* C25: for a unary target f(x,c), f(c,x) and f(x,x) are depth-1 shapes:
\* is_definable with max_depth = 1 returns true when the target equals one
\* of them on both rows.
C25_UnaryShapesAtDepthOne ==
    (IsDefinableDone /\ max_depth = 1 /\ target.arity = 1
        /\ UnaryShapeAgrees(target, connectives))
        => result

-----------------------------------------------------------------------------
(* Completeness by Post's classes: src/post_classes.py *)

\* tuple(v for _ in range(arity))
AllInputs(arity, v) == [k \in 1..arity |-> v]

is_t0_preserving(c) == evaluate(c, AllInputs(c.arity, 0)) = 0

is_t1_preserving(c) == evaluate(c, AllInputs(c.arity, 1)) = 1

is_monotone(c) ==
    \A ri \in Rows(c.arity) : \A rj \in Rows(c.arity) :
        LET input_i == RowInputs(c.arity, ri)
            input_j == RowInputs(c.arity, rj)
        IN  (\A k \in 1..c.arity : input_i[k] <= input_j[k])
                => evaluate(c, input_i) <= evaluate(c, input_j)

is_self_dual(c) ==
    \A row \in Rows(c.arity) :
        LET inputs     == RowInputs(c.arity, row)
            neg_inputs == [k \in 1..c.arity |-> 1 - inputs[k]]
        IN  evaluate(c, neg_inputs) = 1 - evaluate(c, inputs)

\* a ^ b on bits
BitXor(a, b) == (a + b) % 2

is_affine(c) ==
    LET f_zeros == evaluate(c, AllInputs(c.arity, 0))
    IN  \A ri \in Rows(c.arity) : \A rj \in Rows(c.arity) :
            LET input_i   == RowInputs(c.arity, ri)
                input_j   == RowInputs(c.arity, rj)
                input_xor == [k \in 1..c.arity |-> BitXor(input_i[k], input_j[k])]
            IN  evaluate(c, input_xor)
                    = BitXor(BitXor(evaluate(c, input_i), evaluate(c, input_j)), f_zeros)

is_complete(list) ==
    /\ list # <<>>
    /\ \E k \in 1..Len(list) : ~is_t0_preserving(list[k])
    /\ \E k \in 1..Len(list) : ~is_t1_preserving(list[k])
    /\ \E k \in 1..Len(list) : ~is_monotone(list[k])
    /\ \E k \in 1..Len(list) : ~is_self_dual(list[k])
    /\ \E k \in 1..Len(list) : ~is_affine(list[k])

\* is_independent(connectives, max_depth, mode): the value it returns
is_independent(list, d, m) ==
    IF Len(list) <= 1 THEN TRUE
    ELSE \A k \in 1..Len(list) : ~is_definable(list[k], Others(list, k), d, m)

-----------------------------------------------------------------------------
(* The search for a nice set of a given size: src/proofs/z3_proof.py *)

\* the pools searched
ProofPools ==
    {<<CONST_FALSE, NAND>>, <<NAND, NOT, AND>>, <<CONST_FALSE, NOT, AND>>,
     <<NAND, NAND>>, <<TRUE_3, NAND>>}

\* the indices 0..n-1 of a pool
Indices(pool) == 0..(Len(pool) - 1)

RECURSIVE Ascending(_)
\* the list of the elements of a set of indices, in increasing order
Ascending(set) ==
    IF set = {} THEN <<>>
    ELSE LET least == CHOOSE x \in set : \A y \in set : x <= y
         IN  <<least>> \o Ascending(set \ {least})

\* [pool[i] for i in selected_indices]
Selected(pool, indices) == [k \in 1..Len(indices) |-> pool[indices[k] + 1]]

\* pool.index(c)
PoolIndex(pool, c) ==
    (CHOOSE k \in 1..Len(pool) : pool[k] = c /\ \A j \in 1..(k - 1) : pool[j] # c) - 1

\* the constraints asserted before the loop (size, the five Post classes,
\* symmetry breaking), on the set sel of the indices whose selected[i] is true
BaseConstraints(pool, target_size, sel) ==
    LET constants_indices == {idx \in Indices(pool) : pool[idx + 1].arity = 0}
        false_indices     == {idx \in Indices(pool) : pool[idx + 1] = CONST_FALSE}
        ternary_indices   == {idx \in Indices(pool) : pool[idx + 1].arity = 3}
        min_ternary       == (target_size * 10) \div 17
    IN  /\ Cardinality(sel) = target_size
        /\ \E idx \in sel : ~is_t0_preserving(pool[idx + 1])
        /\ \E idx \in sel : ~is_t1_preserving(pool[idx + 1])
        /\ \E idx \in sel : ~is_monotone(pool[idx + 1])
        /\ \E idx \in sel : ~is_self_dual(pool[idx + 1])
        /\ \E idx \in sel : ~is_affine(pool[idx + 1])
        /\ constants_indices # {} => sel \cap constants_indices # {}
        /\ false_indices # {} =>
              (CHOOSE x \in false_indices : \A y \in false_indices : x <= y) \in sel
        /\ (ternary_indices # {} /\ min_ternary > 0) =>
              Cardinality(sel \cap ternary_indices) >= min_ternary

\* the search looks at the base constraints only
SolverModels_unblocked(pool, target_size, clauses) ==
    {sel \in SUBSET Indices(pool) : BaseConstraints(pool, target_size, sel)}

\* s.check() = sat: the models of the base constraints and of the blocking
\* clauses Or([Not(selected[i]) for i in blocked]) asserted so far
SolverModels(pool, target_size, clauses) ==
    {sel \in SUBSET Indices(pool) :
        /\ BaseConstraints(pool, target_size, sel)
        /\ \A blocked \in clauses : \E idx \in blocked : idx \notin sel}

\* the sets of a loaded checkpoint are not asserted
BlockingClauses_none(blocked_sets) == {}

\* the blocking clauses of the sets of a loaded checkpoint
BlockingClauses(blocked_sets) == {Elems(blocked_sets[k]) : k \in 1..Len(blocked_sets)}

\* the data save_checkpoint writes (times left out)
CheckpointData(checked, blocked_sets, nice_sets) ==
    [candidates_checked |-> checked, blocked_sets |-> blocked_sets,
     nice_sets_found |-> nice_sets]

InitProof ==
    /\ connectives \in ProofPools
    /\ pc = "idle"
    /\ target = None
    /\ max_depth = 0
    /\ mode = SYNTACTIC
    /\ i = 0
    /\ independent = <<>>
    /\ result = FALSE
    /\ redundant = {}
    /\ first_run = <<>>
    /\ z3_depth = 0
    /\ model = <<>>
    /\ witness = <<>>
    /\ last_log = NoLog
    /\ ret = NotReturned
    /\ args = NoArgs
    /\ _READABLE_NAMES = <<>>
    /\ conn = <<>>
    /\ solver = {}
    /\ blocked_set_indices = <<>>
    /\ candidates_checked = 0
    /\ nice_sets_found = <<>>
    /\ checkpoint_file = <<>>
    /\ checkpoint = <<>>

\* z3_proof_approach_1_symmetry_breaking(pool, target_size, max_depth,
\* checkpoint_path, checkpoint_interval, max_candidates): up to the loop.
\* A checkpoint is loaded when a path is given and the file exists
Z3ProofCall ==
    /\ pc \in {"idle", "proof_done"}
    /\ \E target_size \in 1..MaxTargetSize : \E d \in 1..MaxDepth :
       \E checkpoint_path \in {<<>>, <<"proof_checkpoint.json">>} :
       \E checkpoint_interval \in {1, 2} :
       \E max_candidates \in {1, 2, DEFAULT_MAX_CANDIDATES} :
          LET loaded == IF checkpoint_path # <<>> THEN checkpoint_file ELSE <<>>
              blocked_sets == IF loaded # <<>> THEN loaded[1].blocked_sets ELSE <<>>
          IN  /\ args' = [op |-> "z3_proof", target_size |-> target_size,
                          checkpoint_path |-> checkpoint_path,
                          checkpoint_interval |-> checkpoint_interval,
                          max_candidates |-> max_candidates]
              /\ max_depth' = d
              /\ checkpoint' = loaded
              /\ blocked_set_indices' = blocked_sets
              /\ solver' = BlockingClauses(blocked_sets)
              /\ candidates_checked' = Len(blocked_sets)
    /\ mode' = SYNTACTIC
    /\ nice_sets_found' = <<>>
    /\ pc' = "proof_loop"
    /\ UNCHANGED <<connectives, target, i, independent, result, redundant, first_run,
                   z3vars, _READABLE_NAMES, conn, checkpoint_file>>

\* one round of the loop with s.check() = sat
ProofCheckSat ==
    /\ pc = "proof_loop"
    /\ \E sel \in SolverModels(connectives, args.target_size, solver) :
          LET selected_indices     == Ascending(sel)
              selected_connectives == Selected(connectives, selected_indices)
              checked              == candidates_checked + 1
              complete             == is_complete(selected_connectives)
              is_indep             == is_independent(selected_connectives, max_depth, mode)
              nice_sets            == IF is_indep
                                      THEN Append(nice_sets_found, selected_connectives)
                                      ELSE nice_sets_found
              blocked_sets         == Append(blocked_set_indices, selected_indices)
              nice_sets_as_indices ==
                  [n \in 1..Len(nice_sets) |->
                      [k \in 1..Len(nice_sets[n]) |-> PoolIndex(connectives, nice_sets[n][k])]]
          IN  /\ candidates_checked' = checked
              /\ solver' = solver \cup {sel}
              /\ IF ~complete
                 THEN /\ pc' = "proof_loop"
                      /\ UNCHANGED <<blocked_set_indices, nice_sets_found, checkpoint_file>>
                 ELSE /\ nice_sets_found' = nice_sets
                      /\ blocked_set_indices' = blocked_sets
                      /\ checkpoint_file' =
                            IF args.checkpoint_path # <<>>
                                  /\ checked % args.checkpoint_interval = 0
                            THEN <<CheckpointData(checked, blocked_sets,
                                                  nice_sets_as_indices)>>
                            ELSE checkpoint_file
                      /\ pc' = IF nice_sets # <<>> \/ checked >= args.max_candidates
                               THEN "proof_end" ELSE "proof_loop"
    /\ UNCHANGED <<connectives, target, max_depth, mode, i, independent, result, redundant,
                   first_run, z3vars, args, _READABLE_NAMES, conn, checkpoint>>

\* s.check() = unsat: no more complete sets
ProofCheckUnsat ==
    /\ pc = "proof_loop"
    /\ SolverModels(connectives, args.target_size, solver) = {}
    /\ pc' = "proof_end"
    /\ UNCHANGED <<connectives, target, max_depth, enumvars, z3vars, modulevars>>

\* s.check() = unknown: the loop is left
ProofCheckUnknown ==
    /\ pc = "proof_loop"
    /\ pc' = "proof_end"
    /\ UNCHANGED <<connectives, target, max_depth, enumvars, z3vars, modulevars>>

\* after the loop: True when no nice set was found
ProofReturn ==
    /\ pc = "proof_end"
    /\ result' = (Len(nice_sets_found) = 0)
    /\ pc' = "proof_done"
    /\ UNCHANGED <<connectives, target, max_depth, mode, i, independent, redundant,
                   first_run, z3vars, modulevars>>

NextProof ==
    \/ Z3ProofCall
    \/ ProofCheckSat
    \/ ProofCheckUnsat
    \/ ProofCheckUnknown
    \/ ProofReturn

SpecProof == InitProof /\ [][NextProof]_vars

\* the index sets of size n whose connectives are complete and independent
NiceSets(pool, n, d, m) ==
    {sel \in SUBSET Indices(pool) :
        /\ Cardinality(sel) = n
        /\ is_complete(Selected(pool, Ascending(sel)))
        /\ is_independent(Selected(pool, Ascending(sel)), d, m)}

\* C26: z3_proof_approach_1_symmetry_breaking returns True only if the pool
\* has no subset of target_size connectives that is complete and independent
\* at the given max_depth and mode.
C26_TrueMeansNoNiceSet ==
    (pc = "proof_done" /\ result)
        => NiceSets(connectives, args.target_size, max_depth, mode) = {}

\* a list without two equal elements
NoDuplicates(list) == \A j \in 1..Len(list) : \A k \in 1..Len(list) : j # k => list[j] # list[k]

\* C27: no candidate is checked for independence twice: every checked
\* candidate is blocked in the solver before the next solver call, the sets
\* of a loaded checkpoint are blocked before the search resumes, and a
\* resumed run checks no candidate the checkpoint records.
C27_NoCandidateCheckedTwice ==
    /\ [](pc \in {"proof_loop", "proof_end", "proof_done"} =>
            /\ NoDuplicates(blocked_set_indices)
            /\ \A k \in 1..Len(blocked_set_indices) :
                  Elems(blocked_set_indices[k]) \in solver
            /\ checkpoint # <<>> =>
                  /\ Len(checkpoint[1].blocked_sets) <= Len(blocked_set_indices)
                  /\ \A k \in 1..Len(checkpoint[1].blocked_sets) :
                        /\ blocked_set_indices[k] = checkpoint[1].blocked_sets[k]
                        /\ Elems(checkpoint[1].blocked_sets[k]) \in solver)
    /\ [][(pc = "proof_loop" /\ candidates_checked' # candidates_checked) =>
            LET candidate == blocked_set_indices'[Len(blocked_set_indices')]
            IN  /\ blocked_set_indices' = Append(blocked_set_indices, candidate)
                /\ \A k \in 1..Len(blocked_set_indices) :
                      blocked_set_indices[k] # candidate
                /\ Elems(candidate) \notin solver
                /\ solver' = solver \cup {Elems(candidate)}]_vars

C27_Witness ==
    /\ pc = "proof_done"
    /\ checkpoint # <<>>
    /\ Len(checkpoint[1].blocked_sets) >= 1
    /\ Len(blocked_set_indices) > Len(checkpoint[1].blocked_sets)

-----------------------------------------------------------------------------
(* Symmetry filtering of a pool: src/search.py, src/post_classes.py *)

INHIBIT          == Connective(2, 2)
CONVERSE_INHIBIT == Connective(2, 4)

\* the connectives the filtered lists are drawn from
SearchPool == {AND, NAND, INHIBIT, CONVERSE_INHIBIT, IDENTITY}

\* equivalence_class_representative: the truth table value of the connective
equivalence_class_representative(connective) == connective.tt

RECURSIVE filter_loop(_, _, _, _)
\* the loop of filter_by_equivalence from element k on
filter_loop(list, k, seen_classes, representatives) ==
    IF k > Len(list) THEN representatives
    ELSE LET canonical == equivalence_class_representative(list[k])
         IN  IF canonical \notin seen_classes
             THEN filter_loop(list, k + 1, seen_classes \cup {canonical},
                              Append(representatives, list[k]))
             ELSE filter_loop(list, k + 1, seen_classes, representatives)

filter_by_equivalence(list) == filter_loop(list, 1, {}, <<>>)

InitSearch ==
    /\ connectives \in Lists(SearchPool, MaxLen)
    /\ pc = "idle"
    /\ target = None
    /\ max_depth = 0
    /\ mode = SYNTACTIC
    /\ i = 0
    /\ independent = <<>>
    /\ result = FALSE
    /\ redundant = {}
    /\ first_run = <<>>
    /\ z3_depth = 0
    /\ model = <<>>
    /\ witness = <<>>
    /\ last_log = NoLog
    /\ ret = NotReturned
    /\ args = NoArgs
    /\ _READABLE_NAMES = <<>>
    /\ conn = <<>>
    /\ solver = {}
    /\ blocked_set_indices = <<>>
    /\ candidates_checked = 0
    /\ nice_sets_found = <<>>
    /\ checkpoint_file = <<>>
    /\ checkpoint = <<>>

\* filter_by_equivalence(connectives)
FilterByEquivalence ==
    /\ pc = "idle"
    /\ ret' = Outcome(FALSE, <<filter_by_equivalence(connectives)>>)
    /\ pc' = "filter_done"
    /\ UNCHANGED <<connectives, target, max_depth, z3_depth, model, witness, last_log,
                   enumvars, modulevars>>

NextSearch == FilterByEquivalence

SpecSearch == InitSearch /\ [][NextSearch]_vars

\* g is f with its variables permuted, some of them negated, and the output
\* negated or not
Equivalent(f, g) ==
    /\ f.arity = g.arity
    /\ \E perm \in Permutations(f.arity) : \E neg \in [1..f.arity -> Bit] : \E o \in Bit :
          \A row \in Rows(f.arity) :
              LET x == RowInputs(f.arity, row)
              IN  evaluate(g, x)
                    = BitXor(evaluate(f, [k \in 1..f.arity |-> BitXor(x[perm[k]], neg[k])]), o)

\* C28: filter_by_equivalence returns one representative of each equivalence
\* class: no two of the connectives it keeps are equivalent, and every input
\* connective has an equivalent connective in the output.
C28_OneRepresentativePerClass ==
    pc = "filter_done" =>
        LET representatives == ret.value[1]
        IN  /\ \A j \in 1..Len(representatives) : \A k \in 1..Len(representatives) :
                  j # k => ~Equivalent(representatives[j], representatives[k])
            /\ \A k \in 1..Len(connectives) :
                  \E j \in 1..Len(representatives) :
                      Equivalent(connectives[k], representatives[j])

\* the lists one step larger than a list: one function of the pool inserted
\* at any place, two neighbours swapped, or one repeated occurrence dropped.
\* Every list that contains all elements of a list is reached from it by such
\* steps; the lists stay within MaxLen elements.
OneStepLarger(list) ==
    {SubSeq(list, 1, k) \o <<e>> \o SubSeq(list, k + 1, Len(list)) :
         k \in (IF Len(list) < MaxLen THEN 0..Len(list) ELSE {}), e \in Pool}
      \cup {[n \in 1..Len(list) |->
                IF n = k THEN list[k + 1] ELSE IF n = k + 1 THEN list[k] ELSE list[n]] :
              k \in 1..(Len(list) - 1)}
      \cup {Others(list, k) :
              k \in {n \in 1..Len(list) : list[n] \in Elems(Others(list, n))}}

\* C29: adding functions to the basis never loses definability: when
\* is_definable(t, B, d) is true, it is true of every list one step larger
\* than B, and so, step by step, of every list that contains all elements of
\* B, in any order and with any repetitions.
C29_BasisMonotone ==
    (pc = "is_definable_done" /\ result) =>
        \A larger \in OneStepLarger(connectives) :
            /\ Elems(connectives) \subseteq Elems(larger)
            /\ is_definable(target, larger, max_depth, mode)

\* PROJECT_Y is found from [PROJECT_X] at depth 1, and the call on the longer
\* list [AND, PROJECT_X] finds it too
C29_Witness ==
    /\ pc = "is_definable_done"
    /\ result
    /\ target = PROJECT_Y
    /\ connectives = <<PROJECT_X>>
    /\ max_depth = 1
    /\ <<AND, PROJECT_X>> \in OneStepLarger(connectives)
    /\ is_definable(target, <<AND, PROJECT_X>>, max_depth, mode)

\* C30: under the default Syntactic mode, is_independent(S, d) is true exactly
\* when find_redundant_connectives(S, d) is the empty set: the set returned by
\* find_redundant_connectives is empty exactly when is_independent holds of the
\* same list and depth, and the call of is_independent returns that value.
C30_IndependentIffNoRedundant ==
    /\ pc = "find_redundant_done" =>
          ((redundant = {}) <=> is_independent(connectives, max_depth, SYNTACTIC))
    /\ pc = "is_independent_done" =>
          (result <=> is_independent(connectives, max_depth, mode))

\* find_redundant_connectives([NOT, AND], 3) has returned the empty set
C30_Witness ==
    /\ pc = "find_redundant_done"
    /\ connectives = <<NOT, AND>>
    /\ max_depth = 3
    /\ redundant = {}
    /\ is_independent(connectives, max_depth, SYNTACTIC)

====
